---- MODULE Spec2Model ----
(***************************************************************************)
(* AttendXpress: makeup-class attendance tracker (Django).                 *)
(*                                                                         *)
(* The model follows attendance_app/models.py, views.py and ai_service.py. *)
(* The relational store is shared by concurrent request handlers; every    *)
(* ORM statement commits on its own, so a handler is a sequence of steps   *)
(* and each step is one statement against the store.  A request keeps the  *)
(* model instance it loaded (makeup) between its steps, and Model.save()   *)
(* writes every column of that instance back.                              *)
(*                                                                         *)
(* Time is in minutes; a date is a day number; a datetime is               *)
(* date * MinutesPerDay + minute of the day (wall clock of the configured  *)
(* zone).                                                                  *)
(***************************************************************************)
EXTENDS Integers, Sequences, FiniteSets, Bags, TLC

\* ---------------------------------------------------------------- bounds
MaxSessions == 2       \* rows of MakeUpClass the model lets be created
MaxCodes    == 2       \* size of the space generate_remedial_code draws from
MaxTicks    == 1       \* clock steps taken from StartNow
NumWorkers  == 2       \* request handlers that can be in flight together
MaxRequests == 3       \* requests served in one behaviour

\* ------------------------------------------------------ program constants
MinutesPerDay == 1440  \* datetime.combine(date, time)
GraceMinutes  == 60    \* timedelta(hours=1)
NULL          == -1    \* a NULL column (None)

\* ------------------------------------------------------------ the actors
Faculty  == {"f1", "f2"}
Students == {"s1", "s2"}
Users    == Faculty \cup Students
Courses  == {"c1"}

\* UserProfile.role
role(u) == IF u \in Faculty THEN "faculty" ELSE "student"

\* Course.faculty
course_faculty(c) == "f1"

\* MakeUpClass.STATUS_CHOICES
STATUS_CHOICES == {"scheduled", "active", "completed", "cancelled"}

Codes   == 1..MaxCodes
Workers == 1..NumWorkers

\* the clock: it starts at 10:30 of day 1, the day the first session of
\* setup_demo.py is scheduled for, and moves in steps of one hour (the
\* length of the grace window, so that the clock meets the expiries)
StartNow == 1 * MinutesPerDay + 10 * 60 + 30
TickStep == GraceMinutes
LastNow  == StartNow + MaxTicks * TickStep

\* values a faculty member can type into the scheduling form
FormDates == {0, 1}
FormTimes == {9 * 60, 10 * 60 + 30}

VARIABLES
  sessions,       \* table MakeUpClass: a sequence, the pk is the index
  records,        \* table AttendanceRecord: a bag of rows
  notifications,  \* table Notification: a bag of rows
  students,       \* Course.students: course -> set of enrolled users
  now,            \* timezone.now()
  reqs,           \* the request each worker is serving
  served,         \* requests started so far
  call            \* the function call under examination, with its result

vars == <<sessions, records, notifications, students, now, reqs, served, call>>

\* ------------------------------------------------------------------ rows
\* a MakeUpClass instance (the columns the handlers read or write)
MakeUpClass(c, f, d, st, et, code) ==
  [course |-> c, faculty |-> f, scheduled_date |-> d, start_time |-> st,
   end_time |-> et, remedial_code |-> code, code_expiry |-> NULL,
   status |-> "scheduled", predicted_attendance |-> NULL]

NoRow == MakeUpClass("c1", "f1", 0, 0, 0, 0)

\* what a handler holds after loading a row: the instance and its pk
NoMakeup == [pk |-> 0, row |-> NoRow]

\* no call is under examination
NoCall == [fn |-> "none", args |-> <<>>, returned |-> FALSE, result |-> FALSE]

Idle == [kind |-> "none", pc |-> "idle", user |-> "f1", code |-> 0,
         makeup |-> NoMakeup, outcome |-> "none"]

\* AttendanceRecord.objects.create(makeup_class, student, is_present=True,
\*                                 verification_method='code', ip_address)
\* (variant: the row is written absent and as a manual entry)
AttendanceRecordMutWrongFlags(pk, u) ==
  [makeup_class |-> pk, student |-> u, is_present |-> FALSE,
   verification_method |-> "manual"]

AttendanceRecord(pk, u) ==
  [makeup_class |-> pk, student |-> u, is_present |-> TRUE,
   verification_method |-> "code"]

\* Notification(recipient, notification_type, related_class), is_read=False
Notification(u, type, pk) ==
  [recipient |-> u, notification_type |-> type, related_class |-> pk,
   is_read |-> FALSE]

\* ------------------------------------------------------------ MakeUpClass
combine(d, t) == d * MinutesPerDay + t

\* MakeUpClass.save(): the default expiry is set when the instance has none
\* (variant: the window is restarted when an active session is saved)
saveMutRestart(makeup) ==
  IF makeup.status = "active" \/ makeup.code_expiry = NULL
  THEN [makeup EXCEPT !.code_expiry =
          combine(makeup.scheduled_date, makeup.end_time) + GraceMinutes
          + (IF makeup.status = "active" THEN GraceMinutes ELSE 0)]
  ELSE makeup

save(makeup) ==
  IF makeup.code_expiry # NULL
  THEN makeup
  ELSE IF makeup.scheduled_date # NULL /\ makeup.end_time # NULL
       THEN [makeup EXCEPT !.code_expiry =
               combine(makeup.scheduled_date, makeup.end_time) + GraceMinutes]
       ELSE makeup

\* MakeUpClass.is_code_valid, evaluated at time t
\* (variant: the minute of the expiry still counts as valid)
is_code_validMutInclusive(makeup, t) ==
  IF makeup.status = "active" /\ makeup.code_expiry # NULL
  THEN t <= makeup.code_expiry
  ELSE FALSE

is_code_valid(makeup, t) ==
  IF makeup.status = "active" /\ makeup.code_expiry # NULL
  THEN t < makeup.code_expiry
  ELSE FALSE

\* MakeUpClass.attendance_count
attendance_count(pk) ==
  BagCardinality([r \in {x \in BagToSet(records) :
                           x.makeup_class = pk /\ x.is_present}
                    |-> CopiesIn(r, records)])

\* ------------------------------------------------- the store's constraints
\* remedial_code is unique=True: the write of `code` into row pk (0 for an
\* INSERT) is refused when another row holds it
\* (variant: the column is not declared unique)
remedial_code_conflictMutAbsent(tbl, pk, code) == FALSE

remedial_code_conflict(tbl, pk, code) ==
  \E i \in 1..Len(tbl) : i # pk /\ tbl[i].remedial_code = code

\* AttendanceRecord.Meta.unique_together = ['makeup_class', 'student']
\* (variant: the constraint is not declared)
unique_together_conflictMutAbsent(recs, pk, u) == FALSE

unique_together_conflict(recs, pk, u) ==
  \E r \in BagToSet(recs) : r.makeup_class = pk /\ r.student = u

\* ------------------------------------------------- Python float arithmetic
\* ai_service.py computes its rates in Python floats (IEEE 754 binary64,
\* round to nearest, ties to even).  A magnitude is a natural number held as
\* its limbs in base LimbBase, least significant first, no leading zero
\* limb; a float is sign * m * 2^e with m of exactly Precision bits (or zero).
LimbBits  == 10
LimbBase  == 2^LimbBits
Precision == 53        \* bits of the significand of a binary64
DivGuard  == 64        \* extra quotient bits a division is carried to

RECURSIVE bigOf(_)
bigOf(n) == IF n = 0 THEN <<>> ELSE <<n % LimbBase>> \o bigOf(n \div LimbBase)

RECURSIVE bigToInt(_)
bigToInt(a) ==
  IF a = <<>> THEN 0 ELSE Head(a) + LimbBase * bigToInt(Tail(a))

RECURSIVE bigTrim(_)
bigTrim(a) ==
  IF a = <<>> THEN a
  ELSE IF a[Len(a)] = 0 THEN bigTrim(SubSeq(a, 1, Len(a) - 1)) ELSE a

RECURSIVE bigAddC(_, _, _)
bigAddC(a, b, c) ==
  IF a = <<>> /\ b = <<>> THEN (IF c = 0 THEN <<>> ELSE <<c>>)
  ELSE LET x == (IF a = <<>> THEN 0 ELSE Head(a))
                + (IF b = <<>> THEN 0 ELSE Head(b)) + c
       IN <<x % LimbBase>> \o
          bigAddC(IF a = <<>> THEN a ELSE Tail(a),
                  IF b = <<>> THEN b ELSE Tail(b), x \div LimbBase)

bigAdd(a, b) == bigAddC(a, b, 0)

\* a - b for a >= b
RECURSIVE bigSubC(_, _, _)
bigSubC(a, b, c) ==
  IF a = <<>> THEN <<>>
  ELSE LET x == Head(a) - (IF b = <<>> THEN 0 ELSE Head(b)) - c
       IN <<x % LimbBase>> \o
          bigSubC(Tail(a), IF b = <<>> THEN b ELSE Tail(b),
                  IF x < 0 THEN 1 ELSE 0)

bigSub(a, b) == bigTrim(bigSubC(a, b, 0))

\* -1, 0, 1 as a < b, a = b, a > b
RECURSIVE bigCmp(_, _)
bigCmp(a, b) ==
  IF Len(a) # Len(b) THEN (IF Len(a) < Len(b) THEN -1 ELSE 1)
  ELSE IF a = <<>> THEN 0
  ELSE IF a[Len(a)] # b[Len(b)]
       THEN (IF a[Len(a)] < b[Len(b)] THEN -1 ELSE 1)
       ELSE bigCmp(SubSeq(a, 1, Len(a) - 1), SubSeq(b, 1, Len(b) - 1))

\* a * k + c for a small k
RECURSIVE bigMulSmallC(_, _, _)
bigMulSmallC(a, k, c) ==
  IF a = <<>> THEN bigOf(c)
  ELSE LET x == Head(a) * k + c
       IN <<x % LimbBase>> \o bigMulSmallC(Tail(a), k, x \div LimbBase)

bigMulSmall(a, k) == bigTrim(bigMulSmallC(a, k, 0))

RECURSIVE bigMul(_, _)
bigMul(a, b) ==
  IF a = <<>> \/ b = <<>> THEN <<>>
  ELSE LET rest == bigMul(a, Tail(b))
       IN bigAdd(bigMulSmall(a, Head(b)),
                 IF rest = <<>> THEN rest ELSE <<0>> \o rest)

\* quotient and remainder of a by a small k: the limbs from position i down,
\* with the remainder r carried in
RECURSIVE bigDivSmallR(_, _, _, _)
bigDivSmallR(a, k, i, r) ==
  IF i = 0 THEN [q |-> <<>>, r |-> r]
  ELSE LET cur  == r * LimbBase + a[i]
           rest == bigDivSmallR(a, k, i - 1, cur % k)
       IN [q |-> Append(rest.q, cur \div k), r |-> rest.r]

bigDivSmall(a, k) ==
  LET d == bigDivSmallR(a, k, Len(a), 0) IN [q |-> bigTrim(d.q), r |-> d.r]

RECURSIVE smallBitLen(_)
smallBitLen(n) == IF n = 0 THEN 0 ELSE 1 + smallBitLen(n \div 2)

bigBitLen(a) ==
  IF a = <<>> THEN 0 ELSE LimbBits * (Len(a) - 1) + smallBitLen(a[Len(a)])

bigShiftLeft(a, s) ==
  IF a = <<>> THEN a
  ELSE [i \in 1..(s \div LimbBits) |-> 0] \o bigMulSmall(a, 2^(s % LimbBits))

bigShiftRight(a, s) ==
  IF s \div LimbBits >= Len(a) THEN <<>>
  ELSE bigDivSmall(SubSeq(a, s \div LimbBits + 1, Len(a)),
                   2^(s % LimbBits)).q

\* bit i of a (bit 0 is the least significant)
bigBit(a, i) ==
  IF i \div LimbBits >= Len(a) THEN 0
  ELSE (a[i \div LimbBits + 1] \div 2^(i % LimbBits)) % 2

\* some bit of a below bit i is set
bigAnyBelow(a, i) ==
  \/ \E j \in 1..Len(a) : j <= i \div LimbBits /\ a[j] # 0
  \/ /\ i \div LimbBits < Len(a)
     /\ a[i \div LimbBits + 1] % 2^(i % LimbBits) # 0

fZero == [s |-> 1, m |-> <<>>, e |-> 0]

\* sign * m * 2^e (and a little more when `sticky`), rounded to a float
fRound(sign, m, e, sticky) ==
  LET len == bigBitLen(m) IN
  IF len = 0 THEN fZero
  ELSE IF len <= Precision
  THEN [s |-> sign, m |-> bigShiftLeft(m, Precision - len),
        e |-> e - (Precision - len)]
  ELSE LET cut   == len - Precision
           q     == bigShiftRight(m, cut)
           above == sticky \/ bigAnyBelow(m, cut - 1)
           up    == bigBit(m, cut - 1) = 1 /\ (above \/ bigBit(q, 0) = 1)
           q2    == IF up THEN bigAdd(q, <<1>>) ELSE q
       IN IF bigBitLen(q2) > Precision
          THEN [s |-> sign, m |-> bigShiftRight(q2, 1), e |-> e + cut + 1]
          ELSE [s |-> sign, m |-> q2, e |-> e + cut]

\* float(n) of an int
fInt(n) == fRound(IF n < 0 THEN -1 ELSE 1, bigOf(IF n < 0 THEN -n ELSE n),
                  0, FALSE)

fNeg(x) == [x EXCEPT !.s = -x.s]

\* x + y
fAdd(x, y) ==
  IF x.m = <<>> THEN (IF y.m = <<>> THEN fZero ELSE y)
  ELSE IF y.m = <<>> THEN x
  ELSE LET e  == IF x.e < y.e THEN x.e ELSE y.e
           a  == bigShiftLeft(x.m, x.e - e)
           b  == bigShiftLeft(y.m, y.e - e)
       IN IF x.s = y.s THEN fRound(x.s, bigAdd(a, b), e, FALSE)
          ELSE IF bigCmp(a, b) >= 0 THEN fRound(x.s, bigSub(a, b), e, FALSE)
          ELSE fRound(y.s, bigSub(b, a), e, FALSE)

fSub(x, y) == fAdd(x, fNeg(y))

\* x * y
fMul(x, y) ==
  IF x.m = <<>> \/ y.m = <<>> THEN fZero
  ELSE fRound(x.s * y.s, bigMul(x.m, y.m), x.e + y.e, FALSE)

\* x / k for an int k > 0
fDivInt(x, k) ==
  IF x.m = <<>> THEN fZero
  ELSE LET d == bigDivSmall(bigShiftLeft(x.m, DivGuard), k)
       IN fRound(x.s, d.q, x.e - DivGuard, d.r # 0)

\* the float literal n/100 (0.85 is the float nearest to 85/100)
fHundredths(n) == fDivInt(fInt(n), 100)

\* x > y
fGt(x, y) ==
  LET mag(a, b) ==   \* |a| > |b| for nonzero a, b
        IF a.e # b.e THEN a.e > b.e ELSE bigCmp(a.m, b.m) > 0
  IN IF x.m = <<>> THEN y.m # <<>> /\ y.s < 0
     ELSE IF y.m = <<>> THEN x.s > 0
     ELSE IF x.s # y.s THEN x.s > 0
     ELSE IF x.s > 0 THEN mag(x, y) ELSE mag(y, x)

\* |x| >= |y|
fAbsGe(x, y) ==
  IF y.m = <<>> THEN TRUE
  ELSE IF x.m = <<>> THEN FALSE
  ELSE IF x.e # y.e THEN x.e > y.e ELSE bigCmp(x.m, y.m) >= 0

\* int(x): truncation towards zero
fTrunc(x) ==
  IF x.m = <<>> THEN 0
  ELSE x.s * bigToInt(IF x.e >= 0 THEN bigShiftLeft(x.m, x.e)
                      ELSE bigShiftRight(x.m, -x.e))

\* ------------------------------------------------------------- AIService
\* date.weekday(): 0 is Monday; day 0 of the model is a Monday
weekday(d) == d % 7

\* the bag of one Notification of `type` about session pk per user in `us`
\* (variant: the list of alerts is written twice)
bulk_createMutTwice(us, type, pk) ==
  [n \in {Notification(u, type, pk) : u \in us} |-> 2]

bulk_create(us, type, pk) ==
  [n \in {Notification(u, type, pk) : u \in us} |-> 1]

\* AIService.generate_auto_alerts(makeup_class): the rows it creates
generate_auto_alerts(makeup) ==
  bulk_create(students[makeup.row.course], "makeup_scheduled", makeup.pk)

\* AIService.send_code_notification(makeup_class): the rows it creates
send_code_notification(makeup) ==
  bulk_create(students[makeup.row.course], "code_generated", makeup.pk)

\* day_factors and time_factor of predict_attendance, in hundredths
day_factor(d) ==
  CASE weekday(d) = 0 -> 85 [] weekday(d) = 1 -> 90 [] weekday(d) = 2 -> 88
    [] weekday(d) = 3 -> 92 [] weekday(d) = 4 -> 80 [] weekday(d) = 5 -> 60
    [] OTHER -> 45

time_factor(t) ==
  LET hour == t \div 60 IN
  IF 9 <= hour /\ hour <= 11 THEN 95
  ELSE IF 14 <= hour /\ hour <= 16 THEN 90
  ELSE IF 17 <= hour /\ hour <= 19 THEN 75
  ELSE 65

\* the pks of the sessions of course c whose status is in `statuses`
filter(c, statuses) ==
  {i \in 1..Len(sessions) :
     sessions[i].course = c /\ sessions[i].status \in statuses}

\* .order_by('scheduled_date') / .order_by('-scheduled_date') of the rows S:
\* every order the store may return them in (rows of equal date come in
\* any order)
RECURSIVE order_by(_, _)
order_by(S, descending) ==
  IF S = {} THEN {<<>>}
  ELSE LET first == {i \in S : \A j \in S :
                       IF descending
                       THEN sessions[i].scheduled_date >=
                              sessions[j].scheduled_date
                       ELSE sessions[i].scheduled_date <=
                              sessions[j].scheduled_date}
       IN UNION {{<<i>> \o o : o \in order_by(S \ {i}, descending)} :
                 i \in first}

\* MakeUpClass.objects.filter(course=course, status='completed')
\*   .order_by('-scheduled_date')[:n]
past_classes(c, n) ==
  {SubSeq(o, 1, IF Len(o) < n THEN Len(o) ELSE n) :
     o \in order_by(filter(c, {"completed"}), TRUE)}

\* total_rate after the loop over past_classes
RECURSIVE total_rate(_, _)
total_rate(past, enrolled_count) ==
  IF past = <<>> THEN fInt(0)
  ELSE fAdd(total_rate(SubSeq(past, 1, Len(past) - 1), enrolled_count),
            fDivInt(fInt(attendance_count(past[Len(past)])), enrolled_count))

\* the rest of predict_attendance, for the rows `past` the query returned
\* (of the result, predicted_rate as rounded for display and confidence are
\* left out)
predict_from(c, d, t, past) ==
  LET enrolled_count == IF Cardinality(students[c]) = 0 THEN 30
                        ELSE Cardinality(students[c])
      base_rate      == IF past = <<>> THEN fHundredths(75)
                        ELSE fDivInt(total_rate(past, enrolled_count),
                                     Len(past))
      predicted_rate == fMul(fMul(base_rate, fHundredths(day_factor(d))),
                             fHundredths(time_factor(t)))
  IN [predicted_count |-> fTrunc(fMul(fInt(enrolled_count), predicted_rate)),
      enrolled_count  |-> enrolled_count,
      rush_level      |-> IF fGt(predicted_rate, fHundredths(85)) THEN "high"
                          ELSE IF fGt(predicted_rate, fHundredths(65))
                          THEN "medium"
                          ELSE "low"]

\* AIService.predict_attendance(course, scheduled_date, start_time): the
\* results it can return
predict_attendance(c, d, t) ==
  {predict_from(c, d, t, past) : past \in past_classes(c, 10)}

\* t.strftime('%H:%M'): the hour and the minute of a time
strftime(t) == <<t \div 60, t % 60>>

\* slots of get_schedule_recommendations: ('09:00', '10:30'), ...
slots == << <<<<9, 0>>, <<10, 30>>>>, <<<<10, 30>>, <<12, 0>>>>,
            <<<<14, 0>>, <<15, 30>>>>, <<<<15, 30>>, <<17, 0>>>> >>

good_days == {0, 1, 2, 3}

\* AIService._score_slot(date, time_str); int(time_str.split(':')[0]) is
\* the first component of the slot's start
score_slot(d, time_str) ==
  LET hour == time_str[1] IN
  100 + (IF weekday(d) \in {1, 2, 3} THEN 10 ELSE 0)
      + (IF 9 <= hour /\ hour <= 11 THEN 20
         ELSE IF 14 <= hour /\ hour <= 16 THEN 15 ELSE 0)

\* AIService._slot_reason(date, time_str): the reasons that are joined
slot_reason(d, time_str) ==
  LET hour    == time_str[1]
      reasons == (IF weekday(d) \in {1, 2} THEN <<"mid-week">> ELSE <<>>)
                 \o (IF 9 <= hour /\ hour <= 11 THEN <<"morning">>
                     ELSE IF 14 <= hour /\ hour <= 16 THEN <<"afternoon">>
                     ELSE <<>>)
  IN IF reasons # <<>> THEN reasons ELSE <<"good availability">>

\* booked_slots: (date, 'HH:MM') of the scheduled and active sessions
\* (variant: the sessions of every status are taken)
booked_slotsMutAnyStatus(c) ==
  {<<sessions[i].scheduled_date, strftime(sessions[i].start_time)>> :
     i \in filter(c, {"scheduled", "active", "completed", "cancelled"})}

booked_slots(c) ==
  {<<sessions[i].scheduled_date, strftime(sessions[i].start_time)>> :
     i \in filter(c, {"scheduled", "active"})}

\* the entries one day adds to recommendations: the slots from k on
RECURSIVE day_recommendations(_, _, _)
day_recommendations(c, check_date, k) ==
  IF k > Len(slots) THEN <<>>
  ELSE (IF <<check_date, slots[k][1]>> \notin booked_slots(c)
        THEN <<[date |-> check_date, start_time |-> slots[k][1],
                end_time |-> slots[k][2],
                score |-> score_slot(check_date, slots[k][1]),
                reason |-> slot_reason(check_date, slots[k][1])]>>
        ELSE <<>>)
       \o day_recommendations(c, check_date, k + 1)

\* the loop `for i in range(14)` from day i on, with its break
\* (variant: every day of the range is scanned)
RECURSIVE scanMutNoBreak(_, _, _, _)
scanMutNoBreak(c, base, i, recommendations) ==
  IF i >= 14 THEN recommendations
  ELSE IF weekday(base + i) \in good_days
       THEN scanMutNoBreak(c, base, i + 1,
              recommendations \o day_recommendations(c, base + i, 1))
       ELSE scanMutNoBreak(c, base, i + 1, recommendations)

RECURSIVE scan(_, _, _, _)
scan(c, base, i, recommendations) ==
  IF i >= 14 THEN recommendations
  ELSE IF weekday(base + i) \in good_days
       THEN LET more == recommendations \o
                          day_recommendations(c, base + i, 1)
            IN IF Len(more) >= 5 THEN more ELSE scan(c, base, i + 1, more)
       ELSE scan(c, base, i + 1, recommendations)

\* list.sort(key=score, reverse=True): stable, entries of equal score keep
\* their order
\* (variant: the sort is ascending)
RECURSIVE sortMutAscending(_)
sortMutAscending(recs) ==
  IF recs = <<>> THEN recs
  ELSE LET done == sortMutAscending(SubSeq(recs, 1, Len(recs) - 1))
           x    == recs[Len(recs)]
           k    == Cardinality({j \in 1..Len(done) :
                                  done[j].score <= x.score})
       IN SubSeq(done, 1, k) \o <<x>> \o SubSeq(done, k + 1, Len(done))

RECURSIVE sort(_)
sort(recs) ==
  IF recs = <<>> THEN recs
  ELSE LET done == sort(SubSeq(recs, 1, Len(recs) - 1))
           x    == recs[Len(recs)]
           k    == Cardinality({j \in 1..Len(done) :
                                  done[j].score >= x.score})
       IN SubSeq(done, 1, k) \o <<x>> \o SubSeq(done, k + 1, Len(done))

\* AIService.get_schedule_recommendations(course)
get_schedule_recommendations(c) ==
  LET base   == now \div MinutesPerDay + 1
      sorted == sort(scan(c, base, 0, <<>>))
  IN SubSeq(sorted, 1, IF Len(sorted) < 5 THEN Len(sorted) ELSE 5)

\* sum(xs) of floats: CPython adds them left to right, and from 3.12 on
\* with Neumaier's compensation; `f` is the running sum and `c` the
\* compensation after the first i items
RECURSIVE sum_compensated(_, _)
sum_compensated(xs, i) ==
  IF i = 1 THEN [f |-> xs[1], c |-> fZero]
  ELSE LET p == sum_compensated(xs, i - 1)
           x == xs[i]
           t == fAdd(p.f, x)
       IN [f |-> t,
           c |-> fAdd(p.c, IF fAbsGe(p.f, x) THEN fAdd(fSub(p.f, t), x)
                           ELSE fAdd(fSub(x, t), p.f))]

RECURSIVE sum_plain(_, _)
sum_plain(xs, i) ==
  IF i = 0 THEN fInt(0) ELSE fAdd(sum_plain(xs, i - 1), xs[i])

sum(xs, compensated) ==
  IF compensated /\ xs # <<>>
  THEN LET r == sum_compensated(xs, Len(xs)) IN fAdd(r.f, r.c)
  ELSE sum_plain(xs, Len(xs))

\* the rest of analyze_attendance_patterns, for the rows `classes` that
\* order_by('scheduled_date') returned (of the best_day insight only its
\* presence is kept)
analyze_from(c, classes, compensated) ==
  LET enrolled == IF Cardinality(students[c]) = 0 THEN 1
                  ELSE Cardinality(students[c])
      rates    == [k \in 1..Len(classes) |->
                     fMul(fDivInt(fInt(attendance_count(classes[k])),
                                  enrolled), fInt(100))]
      n        == Len(rates)
      trend    == IF n < 3 THEN "none"
                  ELSE IF fGt(fDivInt(sum(SubSeq(rates, n - 2, n),
                                          compensated), 3),
                              fDivInt(sum(SubSeq(rates, 1, 3),
                                          compensated), 3))
                       THEN "improving" ELSE "declining"
  IN IF classes = <<>>
     THEN [message |-> "not enough data", insights |-> <<>>,
           trend |-> "none", total_classes |-> NULL]
     ELSE [message |-> "", trend |-> trend, total_classes |-> n,
           insights |-> <<"best_day">> \o
                        (IF n >= 3 THEN <<"trend">> ELSE <<>>)]

\* AIService.analyze_attendance_patterns(course): the results it can return
analyze_attendance_patterns(c) ==
  {analyze_from(c, classes, compensated) :
     classes \in order_by(filter(c, {"completed"}), FALSE),
     compensated \in BOOLEAN}

\* --------------------------------------------------------------- requests
\* setup_demo.py, cut to its first session: the course of f1 with s1
\* enrolled (s2 has registered and is not enrolled yet) and the scheduled
\* session 'Linked Lists Review', 09:00 to 10:30, created by
\* MakeUpClass.objects.create(); the clock has reached the day of the session
Init ==
  /\ \E code \in Codes :
       sessions = <<save(MakeUpClass("c1", "f1", StartNow \div MinutesPerDay,
                                     9 * 60, 10 * 60 + 30, code))>>
  /\ records = EmptyBag
  /\ notifications = EmptyBag
  /\ students = [c \in Courses |-> {"s1"}]
  /\ now = StartNow
  /\ reqs = [w \in Workers |-> Idle]
  /\ served = 0
  /\ call = NoCall

\* a worker takes a new request when it serves none; the workers are
\* interchangeable, and the first one that serves none takes the request
free(w) ==
  /\ served < MaxRequests
  /\ reqs[w].pc \in {"idle", "done"}
  /\ \A v \in Workers : v < w => reqs[v].pc \notin {"idle", "done"}

\* worker w takes the request `kind` of user u
begin(w, kind, u, code) ==
  [reqs EXCEPT ![w] = [Idle EXCEPT !.kind = kind, !.user = u, !.code = code]]

\* the request of worker w ends with `outcome`: the response, with the
\* code that was presented, is what is left of it
respondIn(rs, w, outcome) ==
  [rs EXCEPT ![w] = [Idle EXCEPT !.kind = rs[w].kind, !.code = rs[w].code,
                                 !.pc = "done", !.outcome = outcome]]

respond(w, outcome) == respondIn(reqs, w, outcome)

\* the request of worker w goes on at step `pc`, holding `makeup`
gotoIn(rs, w, pc, makeup) ==
  [rs EXCEPT ![w].pc = pc, ![w].makeup = makeup]

goto(w, pc, makeup) == gotoIn(reqs, w, pc, makeup)

\* get_object_or_404(MakeUpClass, pk=pk, faculty=request.user)
\* (variant: the lookup is by pk alone)
get_object_or_404MutAnyOwner(w, kind, u, pk) ==
  IF pk <= Len(sessions)
  THEN gotoIn(begin(w, kind, u, 0), w, "save",
              [pk |-> pk, row |-> sessions[pk]])
  ELSE respondIn(begin(w, kind, u, 0), w, "not_found_404")

get_object_or_404(w, kind, u, pk) ==
  IF pk <= Len(sessions) /\ sessions[pk].faculty = u
  THEN gotoIn(begin(w, kind, u, 0), w, "save",
              [pk |-> pk, row |-> sessions[pk]])
  ELSE respondIn(begin(w, kind, u, 0), w, "not_found_404")

\* makeup.save() of a loaded instance: UPDATE of every column of row pk;
\* the store raises IntegrityError when the code is held by another row
update(w, row, next) ==
  LET pk == reqs[w].makeup.pk
      m  == save(row)
  IN IF remedial_code_conflict(sessions, pk, m.remedial_code)
     THEN /\ reqs' = respond(w, "server_error")
          /\ UNCHANGED sessions
     ELSE /\ sessions' = [sessions EXCEPT ![pk] = m]
          /\ reqs' = IF next = "done" THEN respond(w, "ok")
                     ELSE goto(w, next, [pk |-> pk, row |-> m])

\* the clock moves on
Tick ==
  /\ now < LastNow
  /\ now' = now + TickStep
  /\ UNCHANGED <<call, sessions, records, notifications, students, reqs,
                 served>>

\* views.enroll_course: course.students.add(request.user)
enroll_course(u, c) ==
  /\ role(u) = "student"
  /\ u \notin students[c]
  /\ students' = [students EXCEPT ![c] = @ \cup {u}]
  /\ UNCHANGED <<call, sessions, records, notifications, now, reqs, served>>

\* MakeUpClassForm.clean: TRUE when no ValidationError is raised
\* (variant: an end time equal to the start time passes)
cleanMutAllowEqual(d, st, et) ==
  ~(d < now \div MinutesPerDay) /\ ~(st > et)

clean(d, st, et) ==
  ~(d < now \div MinutesPerDay) /\ ~(st >= et)

\* views.schedule_makeup, POST: role check, form.is_valid(), first save
schedule_makeup(w, u, c, d, st, et, code) ==
  /\ free(w)
  /\ served' = served + 1
  /\ IF role(u) # "faculty"
     THEN /\ reqs' = respondIn(begin(w, "schedule", u, 0), w, "forbidden")
          /\ UNCHANGED sessions
     ELSE IF ~(course_faculty(c) = u /\ clean(d, st, et))
     THEN /\ reqs' = respondIn(begin(w, "schedule", u, 0), w, "invalid")
          /\ UNCHANGED sessions
     ELSE LET m == save(MakeUpClass(c, u, d, st, et, code)) IN
          /\ Len(sessions) < MaxSessions
          /\ IF remedial_code_conflict(sessions, 0, m.remedial_code)
             THEN /\ reqs' = respondIn(begin(w, "schedule", u, 0), w,
                                       "server_error")
                  /\ UNCHANGED sessions
             ELSE /\ sessions' = Append(sessions, m)
                  /\ reqs' = gotoIn(begin(w, "schedule", u, 0), w, "finish",
                                    [pk |-> Len(sessions) + 1, row |-> m])
  /\ UNCHANGED <<call, records, notifications, students, now>>

\* views.schedule_makeup, after the first save: the alerts, the prediction
\* and the second save
schedule_makeup_finish(w) ==
  /\ reqs[w].kind = "schedule" /\ reqs[w].pc = "finish"
  /\ LET makeup == reqs[w].makeup IN
     /\ notifications' = notifications (+) generate_auto_alerts(makeup)
     /\ \E prediction \in predict_attendance(makeup.row.course,
                                             makeup.row.scheduled_date,
                                             makeup.row.start_time) :
          update(w, [makeup.row EXCEPT !.predicted_attendance =
                       prediction.predicted_count], "done")
  /\ UNCHANGED <<call, records, students, now, served>>

\* views.activate_code: the lookup
activate_code(w, u, pk) ==
  /\ free(w)
  /\ served' = served + 1
  /\ reqs' = get_object_or_404(w, "activate", u, pk)
  /\ UNCHANGED <<call, sessions, records, notifications, students, now>>

\* views.activate_code: makeup.status = 'active'; makeup.save()
activate_code_save(w) ==
  /\ reqs[w].kind = "activate" /\ reqs[w].pc = "save"
  /\ update(w, [reqs[w].makeup.row EXCEPT !.status = "active"], "notify")
  /\ UNCHANGED <<call, records, notifications, students, now, served>>

\* views.activate_code: AIService.send_code_notification(makeup)
activate_code_notify(w) ==
  /\ reqs[w].kind = "activate" /\ reqs[w].pc = "notify"
  /\ notifications' = notifications (+) send_code_notification(reqs[w].makeup)
  /\ reqs' = respond(w, "ok")
  /\ UNCHANGED <<call, sessions, records, students, now, served>>

\* views.complete_class: the lookup
complete_class(w, u, pk) ==
  /\ free(w)
  /\ served' = served + 1
  /\ reqs' = get_object_or_404(w, "complete", u, pk)
  /\ UNCHANGED <<call, sessions, records, notifications, students, now>>

\* views.complete_class: makeup.status = 'completed'; makeup.save()
complete_class_save(w) ==
  /\ reqs[w].kind = "complete" /\ reqs[w].pc = "save"
  /\ update(w, [reqs[w].makeup.row EXCEPT !.status = "completed"], "done")
  /\ UNCHANGED <<call, records, notifications, students, now, served>>

\* views.regenerate_code: role check and lookup
regenerate_code(w, u, pk) ==
  /\ free(w)
  /\ served' = served + 1
  /\ reqs' = IF role(u) # "faculty"
             THEN respondIn(begin(w, "regenerate", u, 0), w, "forbidden")
             ELSE get_object_or_404(w, "regenerate", u, pk)
  /\ UNCHANGED <<call, sessions, records, notifications, students, now>>

\* views.regenerate_code: makeup.remedial_code = generate_remedial_code();
\* makeup.save()
\* (variant: the new code comes with a new expiry, one grace window from now)
regenerate_code_saveMutRenew(w, code) ==
  /\ reqs[w].kind = "regenerate" /\ reqs[w].pc = "save"
  /\ update(w, [reqs[w].makeup.row EXCEPT !.remedial_code = code,
                                          !.code_expiry = now + GraceMinutes],
            "done")
  /\ UNCHANGED <<call, records, notifications, students, now, served>>

regenerate_code_save(w, code) ==
  /\ reqs[w].kind = "regenerate" /\ reqs[w].pc = "save"
  /\ update(w, [reqs[w].makeup.row EXCEPT !.remedial_code = code], "done")
  /\ UNCHANGED <<call, records, notifications, students, now, served>>

\* views.mark_attendance, POST: role check and
\* MakeUpClass.objects.get(remedial_code=code)
mark_attendance(w, u, code) ==
  /\ free(w)
  /\ served' = served + 1
  /\ LET hit == {i \in 1..Len(sessions) : sessions[i].remedial_code = code}
     IN reqs' =
          IF role(u) # "student"
          THEN respondIn(begin(w, "mark", u, code), w, "forbidden")
          ELSE IF hit = {}
          THEN respondIn(begin(w, "mark", u, code), w, "not_found")
          ELSE LET pk == CHOOSE i \in hit : TRUE
               IN gotoIn(begin(w, "mark", u, code), w, "validate",
                       [pk |-> pk, row |-> sessions[pk]])
  /\ UNCHANGED <<call, sessions, records, notifications, students, now>>

\* the first two branches of the if/elif chain of mark_attendance
\* (variant: validity is tested before enrolment)
validateMutSwapped(enrolled, valid) ==
  IF ~valid THEN "inactive_or_expired"
  ELSE IF ~enrolled THEN "not_enrolled"
  ELSE "pass"

validate(enrolled, valid) ==
  IF ~enrolled THEN "not_enrolled"
  ELSE IF ~valid THEN "inactive_or_expired"
  ELSE "pass"

\* views.mark_attendance: the enrolment query and makeup.is_code_valid
mark_attendance_validate(w) ==
  /\ reqs[w].kind = "mark" /\ reqs[w].pc = "validate"
  /\ LET makeup   == reqs[w].makeup
         enrolled == reqs[w].user \in students[makeup.row.course]
         result   == validate(enrolled, is_code_valid(makeup.row, now))
     IN reqs' = IF result = "pass" THEN goto(w, "exists", makeup)
                ELSE respond(w, result)
  /\ UNCHANGED <<call, sessions, records, notifications, students, now, served>>

\* views.mark_attendance:
\* AttendanceRecord.objects.filter(makeup_class, student).exists()
mark_attendance_exists(w) ==
  /\ reqs[w].kind = "mark" /\ reqs[w].pc = "exists"
  /\ reqs' = IF \E r \in BagToSet(records) :
                  /\ r.makeup_class = reqs[w].makeup.pk
                  /\ r.student = reqs[w].user
             THEN respond(w, "already_marked")
             ELSE goto(w, "create", reqs[w].makeup)
  /\ UNCHANGED <<call, sessions, records, notifications, students, now, served>>

\* views.mark_attendance: AttendanceRecord.objects.create(...); the
\* IntegrityError of the store is caught nowhere in the view
\* (variant: the new row takes the place of the rows stored before)
mark_attendance_createMutReplace(w) ==
  /\ reqs[w].kind = "mark" /\ reqs[w].pc = "create"
  /\ records' = SetToBag({AttendanceRecord(reqs[w].makeup.pk, reqs[w].user)})
  /\ reqs' = goto(w, "notify", reqs[w].makeup)
  /\ UNCHANGED <<call, sessions, notifications, students, now, served>>

mark_attendance_create(w) ==
  /\ reqs[w].kind = "mark" /\ reqs[w].pc = "create"
  /\ IF unique_together_conflict(records, reqs[w].makeup.pk, reqs[w].user)
     THEN /\ reqs' = respond(w, "server_error")
          /\ UNCHANGED records
     ELSE /\ records' = records (+)
               SetToBag({AttendanceRecord(reqs[w].makeup.pk, reqs[w].user)})
          /\ reqs' = goto(w, "notify", reqs[w].makeup)
  /\ UNCHANGED <<call, sessions, notifications, students, now, served>>

\* views.mark_attendance: Notification.objects.create(recipient=faculty)
mark_attendance_notify(w) ==
  /\ reqs[w].kind = "mark" /\ reqs[w].pc = "notify"
  /\ notifications' = notifications (+)
       SetToBag({Notification(reqs[w].makeup.row.faculty, "attendance_marked",
                              reqs[w].makeup.pk)})
  /\ reqs' = respond(w, "success")
  /\ UNCHANGED <<call, sessions, records, students, now, served>>

\* views.notifications:
\* Notification.objects.filter(recipient=user, is_read=False)
\*   .update(is_read=True)
notifications_read(u) ==
  /\ \E n \in BagToSet(notifications) : n.recipient = u /\ ~n.is_read
  /\ LET read(n) == IF n.recipient = u THEN [n EXCEPT !.is_read = TRUE]
                    ELSE n
         rows    == {read(n) : n \in BagToSet(notifications)}
     IN notifications' =
          [m \in rows |->
             IF m.recipient = u
             THEN CopiesIn(m, notifications)
                    + CopiesIn([m EXCEPT !.is_read = FALSE], notifications)
             ELSE CopiesIn(m, notifications)]
  /\ UNCHANGED <<call, sessions, records, students, now, reqs, served>>

Next ==
  \/ Tick
  \/ \E u \in Students, c \in Courses : enroll_course(u, c)
  \/ \E u \in Users : notifications_read(u)
  \/ \E w \in Workers, u \in Users, c \in Courses, d \in FormDates,
        st \in FormTimes, et \in FormTimes, code \in Codes :
       schedule_makeup(w, u, c, d, st, et, code)
  \/ \E w \in Workers : schedule_makeup_finish(w)
  \/ \E w \in Workers, u \in Users, pk \in 1..MaxSessions :
       activate_code(w, u, pk)
  \/ \E w \in Workers : activate_code_save(w)
  \/ \E w \in Workers : activate_code_notify(w)
  \/ \E w \in Workers, u \in Users, pk \in 1..MaxSessions :
       complete_class(w, u, pk)
  \/ \E w \in Workers : complete_class_save(w)
  \/ \E w \in Workers, u \in Users, pk \in 1..MaxSessions :
       regenerate_code(w, u, pk)
  \/ \E w \in Workers, code \in Codes : regenerate_code_save(w, code)
  \/ \E w \in Workers, u \in Users, code \in Codes : mark_attendance(w, u, code)
  \/ \E w \in Workers : mark_attendance_validate(w)
  \/ \E w \in Workers : mark_attendance_exists(w)
  \/ \E w \in Workers : mark_attendance_create(w)
  \/ \E w \in Workers : mark_attendance_notify(w)

Spec == Init /\ [][Next]_vars

\* ------------------------------------------- is_code_valid on its own
\* the instants an instance is examined at, and the expiries it can hold
ProbeTimes == {StartNow + k * TickStep : k \in 0..(MaxTicks + 2)}

\* an instance of any status, with any expiry or none, at any instant
InitIsCodeValid ==
  /\ sessions = <<>>
  /\ records = EmptyBag
  /\ notifications = EmptyBag
  /\ students = [c \in Courses |-> {}]
  /\ reqs = [w \in Workers |-> Idle]
  /\ served = 0
  /\ now \in ProbeTimes
  /\ \E status \in STATUS_CHOICES, expiry \in ProbeTimes \cup {NULL} :
       call = [NoCall EXCEPT
                 !.fn = "is_code_valid",
                 !.args = <<[NoRow EXCEPT !.status = status,
                                          !.code_expiry = expiry]>>]

\* makeup.is_code_valid is read
read_is_code_valid ==
  /\ call.fn = "is_code_valid" /\ ~call.returned
  /\ call' = [call EXCEPT !.returned = TRUE,
                          !.result = is_code_valid(call.args[1], now)]
  /\ UNCHANGED <<sessions, records, notifications, students, now, reqs, served>>

NextIsCodeValid == read_is_code_valid

SpecIsCodeValid == InitIsCodeValid /\ [][NextIsCodeValid]_vars

\* ------------------------------------------------ AIService on its own
\* The functions of AIService are called on stores of three kinds: a course
\* with a history of completed sessions, a course with sessions booked in
\* the days ahead, and a course whose next days are booked out.  The users
\* are named by their pks, 1..enrolled; a store is described by the number
\* of enrolled students, the clock and, per session, its course, date,
\* start time, status and number of students marked present.
MaxHistory == 4        \* completed sessions of a drawn history
MaxEnrolled == 3       \* enrolled students of a drawn history
MaxBookedDays == 2     \* Monday-Thursday days ahead that bookings are drawn on

LongHistory == 10 + 1      \* one more than the 10 rows predict_attendance reads

\* midday of a Sunday and of a Wednesday; the histories lie before
ScanNows == {combine(d, 12 * 60) : d \in {27, 30}}

\* the k-th Monday-Thursday day from `base` on (k = 0 is the first)
RECURSIVE good_day(_, _)
good_day(base, k) ==
  IF weekday(base) \in good_days
  THEN (IF k = 0 THEN base ELSE good_day(base + 1, k - 1))
  ELSE good_day(base + 1, k)

session(c, d, st, status, count) ==
  [course |-> c, date |-> d, start |-> st, status |-> status, count |-> count]

\* the dates of a history of n sessions: rising with the pk, falling with
\* the pk, or rising with the first two sessions on one day
HistoryDates(n) ==
  {[i \in 1..n |-> i], [i \in 1..n |-> n + 1 - i],
   [i \in 1..n |-> IF i = 1 THEN 2 ELSE i]}

Histories ==
  UNION {
    {[enrolled |-> e, now |-> combine(27, 12 * 60),
      rows |-> [i \in 1..n |->
                  session("c1", dates[i], 9 * 60, "completed", counts[i])]] :
       counts \in [1..n -> 0..e], dates \in HistoryDates(n)} :
    e \in {0, MaxEnrolled}, n \in 0..MaxHistory}

\* larger courses: 30 enrolled with 20, 25 and 30 present, 9 enrolled with
\* 1, 3 and 6 present, 3 enrolled with 1, 2, 0, 0 and 3 present, the
\* sessions in three orders and an unfinished session beside them
Examples ==
  UNION {
    {[enrolled |-> ex[1], now |-> combine(27, 12 * 60),
      rows |-> [i \in 1..(Len(ex[2]) + 1) |->
                  IF i > Len(ex[2]) THEN session("c1", 28, 9 * 60, status, 0)
                  ELSE session("c1", i, 9 * 60, "completed",
                               ex[2][CASE order = "rising" -> i
                                       [] order = "falling" ->
                                            Len(ex[2]) + 1 - i
                                       [] OTHER -> (i % Len(ex[2])) + 1])]] :
       order \in {"rising", "falling", "turned"},
       status \in {"scheduled", "active", "cancelled"}} :
    ex \in {<<30, <<20, 25, 30>>>>, <<9, <<1, 6, 3>>>>,
            <<3, <<1, 2, 0, 0, 3>>>>}}

\* eleven completed sessions, one of them attended, in either date order
LongHistories ==
  {[enrolled |-> 2, now |-> combine(27, 12 * 60),
    rows |-> [i \in 1..LongHistory |->
                session("c1", IF rising THEN i ELSE LongHistory + 1 - i,
                        9 * 60, "completed", IF i = k THEN 2 ELSE 0)]] :
     k \in 1..LongHistory, rising \in BOOLEAN}

\* sessions of the course, scheduled or active, booked on any of the slots
\* of the next Monday-Thursday days, and possibly one more session on the
\* first of these days that books nothing: a completed or cancelled one,
\* one of another course, or one that starts off the slots
Bookings ==
  UNION {
    {[enrolled |-> 1, now |-> tb[1],
      rows |-> LET grid == [i \in 1..(MaxBookedDays * Len(slots)) |->
                              <<(i - 1) \div Len(slots),
                                ((i - 1) % Len(slots)) + 1>>]
                   taken == SelectSeq(grid, LAMBDA g : g \in tb[2])
               IN [i \in 1..Len(taken) |->
                     session("c1",
                             good_day(tb[1] \div MinutesPerDay + 1,
                                      taken[i][1]),
                             slots[taken[i][2]][1][1] * 60
                               + slots[taken[i][2]][1][2],
                             IF taken[i][2] % 2 = 1 THEN "scheduled"
                             ELSE "active", 0)] \o extra] :
       extra \in {<<>>} \cup
                 {<<session(x[1], good_day(tb[1] \div MinutesPerDay + 1, 0),
                            x[2], x[3], 0)>> :
                    x \in IF <<0, 1>> \in tb[2] THEN {}
                          ELSE {<<"c1", 9 * 60, "completed">>,
                                <<"c1", 9 * 60, "cancelled">>,
                                <<"c2", 9 * 60, "scheduled">>,
                                <<"c1", 9 * 60 + 15, "scheduled">>}}} :
    tb \in ScanNows \X SUBSET ((0..(MaxBookedDays - 1)) \X (1..Len(slots)))}

\* every slot of the 14 days ahead is booked, but for the slots `open` of
\* the first day
BookedOut ==
  UNION {
    {[enrolled |-> 1, now |-> t,
      rows |-> LET all == [i \in 1..(8 * Len(slots)) |->
                             <<good_day(t \div MinutesPerDay + 1,
                                        (i - 1) \div Len(slots)),
                               ((i - 1) % Len(slots)) + 1>>]
               IN [i \in 1..(8 * Len(slots)) |->
                     session("c1", all[i][1],
                             slots[all[i][2]][1][1] * 60
                               + slots[all[i][2]][1][2],
                             IF i \in open THEN "cancelled" ELSE "scheduled",
                             0)]] :
       open \in SUBSET (1..Len(slots))} :
    t \in ScanNows}

Scenarios == Histories \cup Examples \cup LongHistories \cup Bookings
             \cup BookedOut

InitAIService ==
  \E sc \in Scenarios :
    /\ sessions = [i \in 1..Len(sc.rows) |->
                     [save(MakeUpClass(sc.rows[i].course, "f1",
                                       sc.rows[i].date, sc.rows[i].start,
                                       sc.rows[i].start + 90, i))
                        EXCEPT !.status = sc.rows[i].status]]
    /\ records = SetToBag(UNION {{AttendanceRecord(i, u) :
                                     u \in 1..sc.rows[i].count} :
                                  i \in 1..Len(sc.rows)})
    /\ students = [c \in Courses \cup {"c2"} |->
                     IF c \in Courses THEN 1..sc.enrolled ELSE {}]
    /\ now = sc.now
    /\ notifications = EmptyBag
    /\ reqs = [w \in Workers |-> Idle]
    /\ served = 0
    /\ call = NoCall

\* the dates and start times predict_attendance is asked about: a Tuesday
\* and a Friday, at 10:00 and at 17:00
PredictDates == {29, 32}
PredictTimes == {10 * 60, 17 * 60}

returned(fn, args, result) ==
  [fn |-> fn, args |-> args, returned |-> TRUE, result |-> result]

\* AIService.predict_attendance(course, scheduled_date, start_time) is called
\* (variant: the function stores its prediction on the course's sessions)
call_predict_attendanceMutPersist(c, d, t) ==
  /\ call = NoCall
  /\ \E result \in predict_attendance(c, d, t) :
       /\ call' = returned("predict_attendance", <<c, d, t>>, result)
       /\ sessions' = [i \in 1..Len(sessions) |->
                         IF sessions[i].course = c
                         THEN [sessions[i] EXCEPT !.predicted_attendance =
                                 result.predicted_count]
                         ELSE sessions[i]]
  /\ UNCHANGED <<records, notifications, students, now, reqs, served>>

call_predict_attendance(c, d, t) ==
  /\ call = NoCall
  /\ \E result \in predict_attendance(c, d, t) :
       call' = returned("predict_attendance", <<c, d, t>>, result)
  /\ UNCHANGED <<sessions, records, notifications, students, now, reqs, served>>

\* AIService.get_schedule_recommendations(course) is called
call_get_schedule_recommendations(c) ==
  /\ call = NoCall
  /\ call' = returned("get_schedule_recommendations", <<c>>,
                      get_schedule_recommendations(c))
  /\ UNCHANGED <<sessions, records, notifications, students, now, reqs, served>>

\* AIService.analyze_attendance_patterns(course) is called
call_analyze_attendance_patterns(c) ==
  /\ call = NoCall
  /\ \E result \in analyze_attendance_patterns(c) :
       call' = returned("analyze_attendance_patterns", <<c>>, result)
  /\ UNCHANGED <<sessions, records, notifications, students, now, reqs, served>>

\* len(alerts) of the two fan-out functions
len(alerts) ==
  IF alerts = EmptyBag THEN 0 ELSE BagCardinality(alerts)

\* AIService.generate_auto_alerts(makeup_class) is called
call_generate_auto_alerts(pk) ==
  /\ call = NoCall
  /\ pk \in 1..Len(sessions)
  /\ LET alerts == generate_auto_alerts([pk |-> pk, row |-> sessions[pk]]) IN
     /\ notifications' = notifications (+) alerts
     /\ call' = returned("generate_auto_alerts", <<pk>>, len(alerts))
  /\ UNCHANGED <<sessions, records, students, now, reqs, served>>

\* AIService.send_code_notification(makeup_class) is called
call_send_code_notification(pk) ==
  /\ call = NoCall
  /\ pk \in 1..Len(sessions)
  /\ LET alerts == send_code_notification([pk |-> pk, row |-> sessions[pk]]) IN
     /\ notifications' = notifications (+) alerts
     /\ call' = returned("send_code_notification", <<pk>>, len(alerts))
  /\ UNCHANGED <<sessions, records, students, now, reqs, served>>

NextAIService ==
  \/ \E c \in Courses, d \in PredictDates, t \in PredictTimes :
       call_predict_attendance(c, d, t)
  \/ \E c \in Courses : call_get_schedule_recommendations(c)
  \/ \E c \in Courses : call_analyze_attendance_patterns(c)
  \/ \E pk \in 1..2 : call_generate_auto_alerts(pk)
  \/ \E pk \in 1..2 : call_send_code_notification(pk)

SpecAIService == InitAIService /\ [][NextAIService]_vars

\* ================================================================ claims
Stored == 1..Len(sessions)

\* the number of AttendanceRecord rows of session pk and student u
marks(recs, pk, u) ==
  LET S == {r \in BagToSet(recs) : r.makeup_class = pk /\ r.student = u}
  IN IF S = {} THEN 0 ELSE BagCardinality([r \in S |-> CopiesIn(r, recs)])

\* worker w has moved on from step pc of a request of `kind`
stepped(w, kind, pc) ==
  reqs[w].kind = kind /\ reqs[w].pc = pc /\ reqs'[w] # reqs[w]

\* C1: in every reachable state, also after two check-ins of one student
\* for one session have interleaved, at most one AttendanceRecord exists
\* for any (session, student) pair.
C1_AtMostOneRecordPerPair ==
  \A pk \in 1..MaxSessions, u \in Users : marks(records, pk, u) <= 1

\* two check-ins of one student for one session have both passed the
\* existence check, and the first has created its row
C1_Witness ==
  \E w1, w2 \in Workers :
    /\ w1 # w2
    /\ reqs[w1].kind = "mark" /\ reqs[w1].pc = "notify"
    /\ reqs[w2].kind = "mark" /\ reqs[w2].pc = "create"
    /\ reqs[w1].user = reqs[w2].user
    /\ reqs[w1].makeup.pk = reqs[w2].makeup.pk
    /\ marks(records, reqs[w1].makeup.pk, reqs[w1].user) = 1

\* C2: the check-in that loses the insert against a concurrent check-in of
\* the same student ends with the outcome already_marked, not with an
\* unhandled failure.
C2_LoserGetsAlreadyMarked ==
  [][\A w \in Workers :
       (/\ stepped(w, "mark", "create")
        /\ marks(records, reqs[w].makeup.pk, reqs[w].user) >= 1)
       => reqs'[w].outcome = "already_marked"]_vars

\* C3: a status only changes scheduled -> active, active -> completed or
\* scheduled/active -> cancelled; completed and cancelled are final.
C3_StatusLifecycle ==
  [][\A pk \in Stored :
       \/ sessions'[pk].status = sessions[pk].status
       \/ <<sessions[pk].status, sessions'[pk].status>> \in
            {<<"scheduled", "active">>, <<"active", "completed">>,
             <<"scheduled", "cancelled">>, <<"active", "cancelled">>}]_vars

\* C4: no two stored sessions have the same remedial code.
C4_UniqueCodes ==
  \A i, j \in Stored :
    i # j => sessions[i].remedial_code # sessions[j].remedial_code

\* two sessions are stored and a regenerate-code that drew the code of the
\* other session has been refused by the store
C4_Witness ==
  /\ Len(sessions) = 2
  /\ \E w \in Workers :
       reqs[w].kind = "regenerate" /\ reqs[w].outcome = "server_error"

\* C5: a session creation or regenerate-code whose generated code collides
\* with a stored one draws again and ends with a unique code stored (or a
\* reported saturation error); the request never fails.
C5_CollisionRetried ==
  \A w \in Workers :
    reqs[w].kind \in {"schedule", "regenerate"}
      => reqs[w].outcome # "server_error"

\* C6: is_code_valid is true exactly when the status is active and the
\* current time is strictly before the stored expiry; it is false for any
\* other status and for every time from the expiry on, the expiry included.
C6_IsCodeValidIff ==
  (call.fn = "is_code_valid" /\ call.returned) =>
    LET m == call.args[1] IN
    /\ call.result = TRUE <=>
         (m.status = "active" /\ m.code_expiry # NULL /\ now < m.code_expiry)
    /\ m.status \in {"scheduled", "completed", "cancelled"}
         => call.result = FALSE
    /\ (m.code_expiry # NULL /\ now >= m.code_expiry) => call.result = FALSE

\* is_code_valid has been read on an active instance at the very minute of
\* its expiry
C6_Witness ==
  /\ call.fn = "is_code_valid" /\ call.returned
  /\ call.args[1].status = "active"
  /\ now = call.args[1].code_expiry

\* C7: the outcome of a check-in is the first condition that holds in the
\* order not_found, not_enrolled, inactive_or_expired, already_marked, and
\* success when none holds (validity is that of the session as the request
\* loaded it).
C7_OutcomeOrder ==
  [][\A w \in Workers :
       LET r == reqs[w]
           q == reqs'[w]
           held(code) == \E pk \in Stored : sessions[pk].remedial_code = code
       IN
       /\ (free(w) /\ served' # served /\ q.kind = "mark") =>
            /\ q.outcome = "not_found" => ~held(q.code)
            /\ ~held(q.code) => q.outcome \in {"not_found", "forbidden"}
            /\ q.pc = "done" => q.outcome \in {"not_found", "forbidden"}
            /\ q.pc # "done" =>
                 /\ q.pc = "validate" /\ role(q.user) = "student"
                 /\ q.makeup.pk \in Stored
                 /\ q.makeup.row = sessions[q.makeup.pk]
                 /\ q.makeup.row.remedial_code = q.code
       /\ stepped(w, "mark", "validate") =>
            LET enrolled == r.user \in students[r.makeup.row.course]
                valid    == /\ r.makeup.row.status = "active"
                            /\ now < r.makeup.row.code_expiry
            IN IF ~enrolled THEN q.outcome = "not_enrolled"
               ELSE IF ~valid THEN q.outcome = "inactive_or_expired"
               ELSE q.pc = "exists"
       /\ stepped(w, "mark", "exists") =>
            IF marks(records, r.makeup.pk, r.user) > 0
            THEN q.outcome = "already_marked"
            ELSE q.pc = "create"
       /\ (q.kind = "mark" /\ q.outcome = "success" /\ q # r) =>
            r.kind = "mark" /\ r.pc = "notify"]_vars

\* an enrolled student who already has a mark has presented the code of a
\* session that is no longer valid, and the request is about to be decided
C7_Witness ==
  \E w \in Workers :
    /\ reqs[w].kind = "mark" /\ reqs[w].pc = "validate"
    /\ reqs[w].user \in students[reqs[w].makeup.row.course]
    /\ marks(records, reqs[w].makeup.pk, reqs[w].user) = 1
    /\ ~is_code_valid(reqs[w].makeup.row, now)

\* C8: a check-in that passes every check adds exactly one AttendanceRecord
\* for its (session, student), present and verified by code, and exactly
\* one Notification to the session's faculty, and returns success; its
\* other steps write nothing, and nothing else is created or changed.
C8_SuccessCreatesOneMarkOneNotification ==
  [][\A w \in Workers :
       LET r == reqs[w]
           q == reqs'[w]
       IN
       /\ (free(w) /\ served' # served /\ q.kind = "mark") =>
            UNCHANGED <<sessions, records, notifications>>
       /\ (stepped(w, "mark", "validate") \/ stepped(w, "mark", "exists")) =>
            UNCHANGED <<sessions, records, notifications>>
       /\ (stepped(w, "mark", "create") /\ q.pc = "notify") =>
            /\ records' = records (+)
                 SetToBag({[makeup_class |-> r.makeup.pk, student |-> r.user,
                            is_present |-> TRUE,
                            verification_method |-> "code"]})
            /\ UNCHANGED <<sessions, notifications>>
       /\ stepped(w, "mark", "notify") =>
            /\ q.outcome = "success"
            /\ notifications' = notifications (+)
                 SetToBag({[recipient |-> sessions[r.makeup.pk].faculty,
                            notification_type |-> "attendance_marked",
                            related_class |-> r.makeup.pk,
                            is_read |-> FALSE]})
            /\ UNCHANGED <<sessions, records>>]_vars

\* a check-in has returned success
C8_Witness ==
  \E w \in Workers :
    /\ reqs[w].kind = "mark" /\ reqs[w].outcome = "success"
    /\ \E pk \in Stored, u \in Students :
         /\ marks(records, pk, u) = 1
         /\ CopiesIn([recipient |-> sessions[pk].faculty,
                      notification_type |-> "attendance_marked",
                      related_class |-> pk, is_read |-> FALSE],
                     notifications) >= 1

\* C9: the first save of a session sets code_expiry to
\* (scheduled_date + end_time) + 1 hour, and no later save changes it.
C9_ExpirySetOnce ==
  [][/\ \A pk \in Stored :
          sessions'[pk].code_expiry = sessions[pk].code_expiry
     /\ Len(sessions') > Len(sessions) =>
          LET m == sessions'[Len(sessions')] IN
          m.code_expiry =
            m.scheduled_date * 1440 + m.end_time + 60]_vars

\* a session created by the scheduling flow has been saved again by the
\* scheduling flow itself and by activate
C9_Witness ==
  \E pk \in Stored :
    /\ pk > 1
    /\ sessions[pk].predicted_attendance # NULL
    /\ sessions[pk].status = "active"

\* C10: activate sets the status to active and leaves the stored
\* code_expiry and the stored remedial code as they are.
C10_ActivateFrame ==
  [][\A w \in Workers :
       (stepped(w, "activate", "save") /\ reqs'[w].pc = "notify") =>
         LET pk == reqs[w].makeup.pk IN
         /\ sessions'[pk].status = "active"
         /\ sessions'[pk].code_expiry = sessions[pk].code_expiry
         /\ sessions'[pk].remedial_code = sessions[pk].remedial_code]_vars

\* C11: a request of a user who is not entitled to it is rejected at once
\* and goes no further: activate, complete and regenerate-code of anyone but
\* the session's owning faculty, scheduling of a non-faculty user, check-in
\* of a non-student; the rejection leaves every session, attendance mark and
\* notification as it was.
C11_UnauthorizedNoChange ==
  [][\A w \in Workers :
       LET q == reqs'[w] IN
       (free(w) /\ served' # served) =>
         /\ q.outcome \in {"forbidden", "not_found_404"} =>
              UNCHANGED <<sessions, records, notifications>>
         /\ q.pc # "done" =>
              CASE q.kind \in {"activate", "complete", "regenerate"} ->
                     /\ q.makeup.pk \in Stored
                     /\ sessions[q.makeup.pk].faculty = q.user
                [] q.kind = "schedule" -> role(q.user) = "faculty"
                [] q.kind = "mark" -> role(q.user) = "student"
                [] OTHER -> FALSE]_vars

\* every pk the requests can name is stored, and an activate of a user who
\* does not own the session has been rejected
C11_Witness ==
  /\ Len(sessions) = MaxSessions
  /\ \E w \in Workers :
       reqs[w].kind = "activate" /\ reqs[w].outcome = "not_found_404"

\* C12: predict_attendance, get_schedule_recommendations and
\* analyze_attendance_patterns change nothing that is stored: after the
\* call every session (status, code, expiry, predicted_attendance), every
\* attendance mark, every notification and every enrolment is as before.
C12_InsightsReadOnly ==
  [][(/\ call' # call
      /\ call'.fn \in {"predict_attendance", "get_schedule_recommendations",
                       "analyze_attendance_patterns"})
       => UNCHANGED <<sessions, records, notifications, students>>]_vars

\* predict_attendance has returned for a course that has completed sessions
\* with marks, and a session whose predicted_attendance is not set
C12_Witness ==
  /\ call.fn = "predict_attendance" /\ call.returned
  /\ records # EmptyBag
  /\ \E pk \in Stored : /\ sessions[pk].status = "scheduled"
                        /\ sessions[pk].predicted_attendance = NULL

\* C13: generate_auto_alerts (session creation) and send_code_notification
\* (activation) create exactly one Notification per student enrolled in the
\* session's course, addressed to the student and referencing the session,
\* and none for anyone else, and return the number created; for a course
\* without students they create none and return 0.
C13_FanOutPerEnrolledStudent ==
  [][(/\ call' # call
      /\ call'.fn \in {"generate_auto_alerts", "send_code_notification"})
       => LET pk   == call'.args[1]
              to   == students[sessions[pk].course]
              type == IF call'.fn = "generate_auto_alerts"
                      THEN "makeup_scheduled" ELSE "code_generated"
              mine(n) == /\ n.recipient \in to
                         /\ n = [recipient |-> n.recipient,
                                 notification_type |-> type,
                                 related_class |-> pk, is_read |-> FALSE]
          IN /\ \A u \in to :
                  CopiesIn([recipient |-> u, notification_type |-> type,
                            related_class |-> pk, is_read |-> FALSE],
                           notifications')
                    = 1 + CopiesIn([recipient |-> u,
                                    notification_type |-> type,
                                    related_class |-> pk, is_read |-> FALSE],
                                   notifications)
             /\ \A n \in BagToSet(notifications') \cup BagToSet(notifications) :
                  ~mine(n) => CopiesIn(n, notifications')
                                = CopiesIn(n, notifications)
             /\ call'.result = Cardinality(to)
             /\ to = {} => call'.result = 0 /\ notifications' = notifications
             /\ UNCHANGED <<sessions, records, students>>]_vars

\* the code notification has gone out to a course of several students
C13_Witness ==
  /\ call.fn = "send_code_notification" /\ call.returned
  /\ call.result > 1
  /\ call.result = Cardinality(students[sessions[call.args[1]].course])

\* C14: predict_attendance returns predicted rate = base x day multiplier
\* x time multiplier, where base is the mean of present/enrolled over the
\* (up to 10) most recent completed sessions of the course (0.75 with no
\* history), predicted count = floor(enrolled x predicted rate), and rush
\* level high for a rate above 0.85, medium above 0.65, else low; 20, 25
\* and 30 present out of 30, for a Tuesday at 10:00, give medium and 21.
\* (The rate is n / q, with n = present x day x time and q = sessions x
\* enrolled x 10000 when there is a history and n = 3 x day x time and
\* q = 40000 when there is none, the multipliers being in hundredths.)
C14_PredictionFormula ==
  (call.fn = "predict_attendance" /\ call.returned) =>
    LET c        == call.args[1]
        done     == filter(c, {"completed"})
        enrolled == IF students[c] = {} THEN 30 ELSE Cardinality(students[c])
        factors  == day_factor(call.args[2]) * time_factor(call.args[3])
        present(S) == Cardinality({r \in BagToSet(records) :
                                     r.makeup_class \in S /\ r.is_present})
    IN /\ \E S \in SUBSET done :
            /\ Cardinality(S) = IF Cardinality(done) < 10
                                THEN Cardinality(done) ELSE 10
            /\ \A i \in S, j \in done \ S :
                 sessions[i].scheduled_date >= sessions[j].scheduled_date
            /\ LET n == IF S = {} THEN 3 * factors
                        ELSE present(S) * factors
                   q == IF S = {} THEN 40000
                        ELSE 10000 * Cardinality(S) * enrolled
               IN /\ call.result.predicted_count = (enrolled * n) \div q
                  /\ call.result.rush_level =
                       IF 20 * n > 17 * q THEN "high"
                       ELSE IF 20 * n > 13 * q THEN "medium" ELSE "low"
       /\ (/\ enrolled = 30 /\ Cardinality(done) = 3
           /\ {attendance_count(i) : i \in done} = {20, 25, 30}
           /\ weekday(call.args[2]) = 1 /\ call.args[3] = 10 * 60)
            => /\ call.result.rush_level = "medium"
               /\ call.result.predicted_count = 21

\* C15 (as stated): get_schedule_recommendations returns at most 5 slots,
\* each with a score strictly greater than the score of the slot after it.
C15_StrictlySorted ==
  (call.fn = "get_schedule_recommendations" /\ call.returned) =>
    /\ Len(call.result) <= 5
    /\ \A k \in 1..(Len(call.result) - 1) :
         call.result[k].score > call.result[k + 1].score

\* C15 (amended): get_schedule_recommendations returns at most 5 slots in
\* non-increasing order of score: no returned slot has a score lower than
\* the slot after it (equal scores occur).
C15_SortedByScore ==
  (call.fn = "get_schedule_recommendations" /\ call.returned) =>
    /\ Len(call.result) <= 5
    /\ \A k \in 1..(Len(call.result) - 1) :
         call.result[k].score >= call.result[k + 1].score

\* five slots were returned that are neither all of one score nor in the
\* order in which the scan collected them, and two neighbours tie
C15_Witness ==
  /\ call.fn = "get_schedule_recommendations" /\ call.returned
  /\ Len(call.result) = 5
  /\ call.result[1].score > call.result[5].score
  /\ \E k \in 1..4 : call.result[k].score = call.result[k + 1].score
  /\ call.result #
       SubSeq(scan(call.args[1], now \div MinutesPerDay + 1, 0, <<>>), 1, 5)

\* C16: every slot get_schedule_recommendations returns is on a Monday to
\* Thursday within the 14 days that start tomorrow, is one of the four
\* fixed windows, and is not the (date, start time) of a scheduled or
\* active session of the course; and nothing else excludes a slot: a slot
\* of those days that no such session occupies (whatever completed or
\* cancelled sessions, or sessions of other courses, occupy it) and that is
\* not later than the latest returned day is returned, unless five slots of
\* at least its score are.
C16_SurvivingCandidates ==
  (call.fn = "get_schedule_recommendations" /\ call.returned) =>
    LET c        == call.args[1]
        tomorrow == now \div MinutesPerDay + 1
        windows  == {<<<<9, 0>>, <<10, 30>>>>, <<<<10, 30>>, <<12, 0>>>>,
                     <<<<14, 0>>, <<15, 30>>>>, <<<<15, 30>>, <<17, 0>>>>}
        occupied(d, start) ==
          \E i \in 1..Len(sessions) :
            /\ sessions[i].course = c
            /\ sessions[i].status \in {"scheduled", "active"}
            /\ sessions[i].scheduled_date = d
            /\ sessions[i].start_time = 60 * start[1] + start[2]
        result   == {call.result[k] : k \in 1..Len(call.result)}
    IN /\ \A x \in result :
            /\ x.date \in tomorrow..(tomorrow + 13)
            /\ weekday(x.date) \in {0, 1, 2, 3}
            /\ <<x.start_time, x.end_time>> \in windows
            /\ ~occupied(x.date, x.start_time)
       /\ \A d \in tomorrow..(tomorrow + 13), win \in windows :
            (/\ weekday(d) \in {0, 1, 2, 3}
             /\ ~occupied(d, win[1])
             /\ result # {} => \E x \in result : d <= x.date)
              => \/ \E x \in result : x.date = d /\ x.start_time = win[1]
                 \/ /\ Len(call.result) = 5
                    /\ \A x \in result :
                         x.score >= score_slot(d, win[1])

\* a returned slot is the (date, start time) of a cancelled session of the
\* course, and a slot of the same day is left out because an active
\* session of the course occupies it
C16_Witness ==
  /\ call.fn = "get_schedule_recommendations" /\ call.returned
  /\ \E k \in 1..Len(call.result), i, j \in 1..Len(sessions) :
       /\ sessions[i].course = call.args[1]
       /\ sessions[i].status = "cancelled"
       /\ sessions[i].scheduled_date = call.result[k].date
       /\ strftime(sessions[i].start_time) = call.result[k].start_time
       /\ sessions[j].course = call.args[1]
       /\ sessions[j].status = "active"
       /\ sessions[j].scheduled_date = call.result[k].date
       /\ \E n \in 1..Len(slots) :
            strftime(sessions[j].start_time) = slots[n][1]

\* C17: a scheduling request whose end time is not after its start time,
\* or whose date is in the past, is turned away and writes nothing: no
\* session row is created or changed (so no prediction is stored) and no
\* notification is created (a step in which a worker takes a scheduling
\* request either ends so, or is the step of no such input); and every
\* session row a step creates has end_time > start_time and a date that
\* is not in the past.
C17_MalformedInputNoWrite ==
  [][/\ \A w \in Workers :
          (free(w) /\ served' # served /\ reqs'[w].kind = "schedule") =>
            \/ /\ reqs'[w].pc = "done"
               /\ reqs'[w].outcome \in {"invalid", "forbidden"}
               /\ UNCHANGED <<sessions, records, notifications>>
            \/ \A u \in Users, c \in Courses, d \in FormDates,
                  st \in FormTimes, et \in FormTimes, code \in Codes :
                 (st >= et \/ d < now \div MinutesPerDay)
                   => ~schedule_makeup(w, u, c, d, st, et, code)
     /\ \A i \in 1..Len(sessions') :
          i > Len(sessions)
            => /\ sessions'[i].end_time > sessions'[i].start_time
               /\ sessions'[i].scheduled_date >= now \div MinutesPerDay
    ]_vars

\* one scheduling request was turned away at the form, and another one
\* went through and left a session with its prediction stored
C17_Witness ==
  /\ \E w \in Workers :
       reqs[w].kind = "schedule" /\ reqs[w].outcome = "invalid"
  /\ \E w \in Workers :
       reqs[w].kind = "schedule" /\ reqs[w].outcome = "ok"
  /\ Len(sessions) = 2
  /\ sessions[2].end_time > sessions[2].start_time
  /\ sessions[2].predicted_attendance >= 0

\* C18: attendance marks are append-only: no step (check-in, activate,
\* complete, regenerate code, enroll, scheduling, reading notifications,
\* the clock) removes a stored AttendanceRecord or changes a field of it;
\* every row stored before a step is stored after it, as many times.
C18_MarksAppendOnly ==
  [][\A r \in BagToSet(records) :
       CopiesIn(r, records') >= CopiesIn(r, records)]_vars

\* a mark is stored, the session it belongs to has since been completed,
\* and a notification has been read
C18_Witness ==
  /\ \E r \in BagToSet(records) :
       sessions[r.makeup_class].status = "completed"
  /\ \E n \in BagToSet(notifications) : n.is_read

\* C19: the scan is greedy. With the days taken in date order from
\* tomorrow, let the last scanned day be the first Monday-Thursday day up
\* to which at least 5 slots are free of scheduled and active sessions of
\* the course (the 14th day when there is none). The returned slots are
\* the 5 highest-scoring free slots of the days up to that day (all of
\* them when they are fewer), so no slot of a later day is returned,
\* whatever its score.
C19_GreedyScan ==
  (call.fn = "get_schedule_recommendations" /\ call.returned) =>
    LET c        == call.args[1]
        tomorrow == now \div MinutesPerDay + 1
        starts   == {<<9, 0>>, <<10, 30>>, <<14, 0>>, <<15, 30>>}
        occupied(d, start) ==
          \E i \in 1..Len(sessions) :
            /\ sessions[i].course = c
            /\ sessions[i].status \in {"scheduled", "active"}
            /\ sessions[i].scheduled_date = d
            /\ sessions[i].start_time = 60 * start[1] + start[2]
        collected(d) ==
          {x \in (tomorrow..d) \X starts :
             weekday(x[1]) \in {0, 1, 2, 3} /\ ~occupied(x[1], x[2])}
        stops    == {d \in tomorrow..(tomorrow + 13) :
                       /\ weekday(d) \in {0, 1, 2, 3}
                       /\ Cardinality(collected(d)) >= 5}
        last     == IF stops = {} THEN tomorrow + 13
                    ELSE CHOOSE d \in stops : \A e \in stops : d <= e
        result   == {<<call.result[k].date, call.result[k].start_time>> :
                       k \in 1..Len(call.result)}
    IN /\ result \subseteq collected(last)
       /\ Cardinality(result) = Len(call.result)
       /\ Len(call.result) = IF Cardinality(collected(last)) < 5
                             THEN Cardinality(collected(last)) ELSE 5
       /\ \A x \in collected(last) \ result, k \in 1..Len(call.result) :
            score_slot(x[1], x[2]) <= call.result[k].score

\* five slots were returned, and a free slot of a later Monday-Thursday
\* day of the 14 has a higher score than the last of them
C19_Witness ==
  /\ call.fn = "get_schedule_recommendations" /\ call.returned
  /\ Len(call.result) = 5
  /\ \E d \in (now \div MinutesPerDay + 1)..(now \div MinutesPerDay + 14),
        n \in 1..Len(slots) :
       /\ \A k \in 1..5 : call.result[k].date < d
       /\ weekday(d) \in good_days
       /\ <<d, slots[n][1]>> \notin booked_slots(call.args[1])
       /\ score_slot(d, slots[n][1]) > call.result[5].score

\* C20: analyze_attendance_patterns emits a trend insight exactly when the
\* course has at least 3 completed sessions; the trend is improving when
\* the mean rate of the 3 most recent completed sessions is strictly
\* greater than the mean rate of the 3 earliest (by date), and declining
\* otherwise, so also when the means are equal. (The rates share the
\* divisor enrolled and the means the divisor 3: the means compare as the
\* present counts of the two groups do.)
C20_TrendLabel ==
  (call.fn = "analyze_attendance_patterns" /\ call.returned) =>
    LET done == filter(call.args[1], {"completed"})
        present(S) == Cardinality({r \in BagToSet(records) :
                                     r.makeup_class \in S /\ r.is_present})
        has_trend  == \E k \in 1..Len(call.result.insights) :
                        call.result.insights[k] = "trend"
    IN /\ has_trend <=> Cardinality(done) >= 3
       /\ has_trend =>
            \E older \in SUBSET done, recent \in SUBSET done :
              /\ Cardinality(older) = 3 /\ Cardinality(recent) = 3
              /\ \A i \in older, j \in done \ older :
                   sessions[i].scheduled_date <= sessions[j].scheduled_date
              /\ \A i \in recent, j \in done \ recent :
                   sessions[i].scheduled_date >= sessions[j].scheduled_date
              /\ call.result.trend =
                   IF present(recent) > present(older) THEN "improving"
                   ELSE "declining"

\* C21: expiry is final. Once the clock has reached the stored code_expiry
\* of a session it has reached it after every later step, whatever
\* activate, complete or regenerate-code save; a check-in whose validity
\* is tested at such a time ends without success and writes no
\* AttendanceRecord; and a mark is written, and success returned, only by
\* a check-in that went through that test (validate, then exists, then
\* create, then notify).
C21_ExpiryFinal ==
  [][/\ \A pk \in Stored :
          now >= sessions[pk].code_expiry
            => now' >= sessions'[pk].code_expiry
     /\ \A w \in Workers :
          (/\ reqs[w].kind = "mark" /\ reqs[w].pc = "validate"
           /\ reqs'[w] # reqs[w]
           /\ now >= sessions[reqs[w].makeup.pk].code_expiry)
            => /\ reqs'[w].pc = "done"
               /\ reqs'[w].outcome \in {"not_enrolled", "inactive_or_expired"}
               /\ records' = records
     /\ \A w \in Workers :
          LET before(pc) == /\ reqs[w].kind = "mark" /\ reqs[w].pc = pc
                            /\ reqs'[w].kind = "mark"
                            /\ reqs'[w].makeup.pk = reqs[w].makeup.pk
              entered(pc) == /\ reqs'[w].kind = "mark" /\ reqs'[w].pc = pc
                             /\ reqs'[w] # reqs[w]
          IN /\ entered("exists") => before("validate")
             /\ entered("create") => before("exists")
             /\ entered("notify") => before("create")
             /\ (reqs'[w].outcome = "success" /\ reqs'[w] # reqs[w])
                  => reqs[w].kind = "mark" /\ reqs[w].pc = "notify"
     /\ records' # records =>
          \E w \in Workers :
            /\ reqs[w].kind = "mark" /\ reqs[w].pc = "create"
            /\ reqs'[w].pc = "notify"
            /\ \A r \in BagToSet(records') :
                 CopiesIn(r, records') # CopiesIn(r, records)
                   => r.makeup_class = reqs[w].makeup.pk
    ]_vars

\* the clock has reached the expiry of a session that was activated and
\* whose code was regenerated since, and the check-in of an enrolled
\* student, who presented the stored code and found the session active, is
\* at its validity test
C21_Witness ==
  \E w \in Workers, v \in Workers :
    /\ reqs[v].kind = "regenerate" /\ reqs[v].outcome = "ok"
    /\ reqs[w].kind = "mark" /\ reqs[w].pc = "validate"
    /\ LET pk == reqs[w].makeup.pk IN
       /\ reqs[w].user \in students[sessions[pk].course]
       /\ reqs[w].makeup.row.status = "active"
       /\ sessions[pk].status = "active"
       /\ reqs[w].code = sessions[pk].remedial_code
       /\ now >= sessions[pk].code_expiry

\* C22: an AttendanceRecord is written only for a session whose stored
\* status is active when the row is written, also when a complete or a
\* regenerate-code request runs between the check-in's validity test and
\* its create; a completed session gains no mark.
C22_MarkOnlyWhileActive ==
  [][\A r \in BagToSet(records') :
       CopiesIn(r, records') > CopiesIn(r, records)
         => sessions[r.makeup_class].status = "active"]_vars

\* C23: the step in which a check-in ends as not_found, not_enrolled,
\* inactive_or_expired or already_marked writes no AttendanceRecord, no
\* Notification and no session, and that check-in has not been through
\* its create; and after every step, for every session, the faculty's
\* attendance_marked notifications are as many as the session's marks.
C23_FailedCheckInWritesNothing ==
  [][/\ \A w \in Workers :
          (/\ reqs'[w] # reqs[w]
           /\ reqs'[w].kind = "mark" /\ reqs'[w].pc = "done"
           /\ reqs'[w].outcome \in {"not_found", "not_enrolled",
                                    "inactive_or_expired", "already_marked"})
            => /\ UNCHANGED <<sessions, records, notifications>>
               /\ reqs[w].pc \in {"idle", "done", "validate", "exists"}
     /\ \A pk \in 1..Len(sessions') :
          BagCardinality(
            [n \in {x \in BagToSet(notifications') :
                      /\ x.notification_type = "attendance_marked"
                      /\ x.related_class = pk
                      /\ x.recipient = sessions'[pk].faculty}
               |-> CopiesIn(n, notifications')])
          = BagCardinality(
              [r \in {x \in BagToSet(records') : x.makeup_class = pk}
                 |-> CopiesIn(r, records')])
    ]_vars

====
